---- MODULE Spec2Model ----
(***************************************************************************)
(* Model of the exam generation pipeline                                   *)
(*   analyzeImagesAndGenerateQuestions  (src/components/Spinner.tsx)       *)
(* and of the App component that calls it (src/unnamed/part_000).          *)
(*                                                                         *)
(* Strings are sequences of tokens; a comma is always a token of its own,  *)
(* so that String.split(',') and String.includes are computed on the       *)
(* sequence.  A JavaScript value that may be undefined/null is a record    *)
(* [defined, str].  An error object is represented by its .message value.  *)
(***************************************************************************)
EXTENDS Integers, Sequences, FiniteSets, TLC

\* ---------------------------------------------------------------- bounds
MaxInvocations == 2
MaxImages == 2

\* ------------------------------------------------------------ JS values
Nullish == [defined |-> FALSE, str |-> <<>>]

Str(s) == [defined |-> TRUE, str |-> s]

\* JavaScript truthiness of a string | undefined value
Truthy(v) == v.defined /\ v.str # <<>>

\* String.prototype.includes on token sequences
Includes(s, sub) ==
  \E i \in 0..(Len(s) - Len(sub)) : SubSeq(s, i + 1, i + Len(sub)) = sub

\* ------------------------------------------------------ literal strings
ApiKeyNotDefinedMsg == <<"API_KEY is not defined in the environment variables.">>

FailedToAnalyzeMsg == <<"Failed to analyze images. Please try again.">>

FallbackSummary == <<"No specific insights extracted from images.">>

NotFoundNeedle == <<"Requested entity was not found.">>

ApiKeyInvalidMsg ==
  <<"API key might be invalid", " or not selected. Please select a valid key.">>

FailedToGenerateMsg ==
  <<"Failed to generate questions. Please check your prompt or try again.">>

ApiKeyInvalidNeedle == <<"API key might be invalid">>

UnexpectedMsg == <<"An unexpected error occurred during exam generation.">>

UploadAtLeastOneMsg == <<"Please upload at least one image.">>

\* the analysis prompt; the settings it interpolates are part of the tokens
AnalysisPrompt ==
  <<"You are an expert educator. Analyze the provided images of textbook pages and exercises. ... for Class ${settings.className}, Board ${settings.board}. ...">>

\* the text of generationPrompt before and after ${analysisSummary}
GenerationPromptHead ==
  <<"Based on the following topic: \"${settings.topic}\", ... and the following analysis of textbook content: \"">>

GenerationPromptTail ==
  <<"\", generate an exam paper with the specified number of questions for each type. ...">>

\* message of the TypeError raised by window.aistudio.openSelectKey when
\* window.aistudio is undefined
AistudioTypeErrorMsg ==
  <<"Cannot read properties of undefined (reading 'openSelectKey')">>

\* ------------------------------------------------------------ environment
\* Files the user can pick: a MIME type and the base64 transcription of the
\* bytes (base64 never contains a comma).
BlobPool ==
  << [type |-> <<"image/png">>,  data |-> <<"iVBORw0KGgo">>],
     [type |-> <<"image/jpeg">>, data |-> <<"/9j/4AAQ">>],
     [type |-> <<"image/png">>,  data |-> <<"R0lGODlh">>],
     [type |-> <<"image/webp">>, data |-> <<"UklGRg">>] >>

Blobs == { BlobPool[k] : k \in 1..MaxImages }

\* the selections a file picker or a drop can deliver: lists of distinct
\* files, possibly empty
RECURSIVE DistinctSeqs(_, _)
DistinctSeqs(S, n) ==
  IF n = 0 THEN { <<>> }
  ELSE LET shorter == DistinctSeqs(S, n - 1)
       IN  shorter \cup
           { Append(s, x) : s \in { t \in shorter : Len(t) = n - 1 },
                            x \in S }

FileLists ==
  { s \in DistinctSeqs(Blobs, MaxImages) :
      \A a, b \in 1..Len(s) : a # b => s[a] # s[b] }

\* what the analysis service can answer in response.text
AnalysisTexts == { Nullish, Str(<<>>), Str(<<"Topic: cell structure">>) }

\* what the composition service can answer in response.text
GenerationTexts == { Nullish, Str(<<>>), Str(<<"## Multiple Choice Questions (MCQs) ...">>) }

\* .message of the errors the generative service can reject with
ServiceErrors ==
  { Str(NotFoundNeedle),
    Str(<<"[404] ">> \o NotFoundNeedle),
    Str(<<"Quota exceeded">>),
    Nullish }

\* .message of the values window.aistudio.openSelectKey() can reject with
SelectKeyErrors == { Str(<<"Key selection cancelled">>), Nullish }

\* ---------------------------------------------------------------- encoder
\* FileReader.readAsDataURL: "data:<type>;base64,<payload>"
ReadAsDataURL(file) ==
  <<"data:">> \o file.type \o <<";base64", ",">> \o file.data

\* String.prototype.split(',')
RECURSIVE Split(_, _)
Split(s, sep) ==
  IF \A i \in 1..Len(s) : s[i] # sep THEN << s >>
  ELSE LET i == CHOOSE j \in 1..Len(s) :
                   s[j] = sep /\ \A k \in 1..(j - 1) : s[k] # sep
       IN  << SubSeq(s, 1, i - 1) >> \o Split(SubSeq(s, i + 1, Len(s)), sep)

\* (reader.result as string).split(',')[1]
OnLoadBase64(result) ==
  LET pieces == Split(result, ",")
  IN  IF Len(pieces) >= 2 THEN Str(pieces[2]) ELSE Nullish

\* the ImagePart built by the per-file async callback
MakeImagePart(file, base64) ==
  [mimeType |-> file.type, data |-> base64]

\* the value of the promise returned for one file by
\* images.map(async (file) => ...), once its reader has loaded
EncodeFile(file) == MakeImagePart(file, OnLoadBase64(ReadAsDataURL(file)))

\* an entry of Promise.all's result array that is not set yet
NoPart == [mimeType |-> <<>>, data |-> Nullish]

\* The promise of one file: its state and, once settled, `at`: how many of
\* the other promises of the call had settled before it.
PendingRead == [state |-> "pending", at |-> 0]

Settled(reads) == Cardinality({ k \in 1..Len(reads) : reads[k].state # "pending" })

\* variant: waits for every promise to settle before it rejects
\* (Promise.allSettled followed by a scan)
PromiseAllSettledState(reads) ==
  IF \E k \in 1..Len(reads) : reads[k].state = "pending" THEN "pending"
  ELSE IF \E k \in 1..Len(reads) : reads[k].state = "rejected" THEN "rejected"
  ELSE "fulfilled"

\* state of Promise.all over the per-file promises, for a Promise.all that
\* has not settled before
PromiseAllState(reads) ==
  IF \E k \in 1..Len(reads) : reads[k].state = "rejected" THEN "rejected"
  ELSE IF \A k \in 1..Len(reads) : reads[k].state = "fulfilled" THEN "fulfilled"
  ELSE "pending"

\* variant: the values in the order in which the promises fulfilled
\* (each callback pushing its part on a shared array)
ValuesInCompletionOrder(reads, values) ==
  [n \in 1..Len(reads) |->
     values[CHOOSE k \in 1..Len(reads) : reads[k].at = n - 1]]

\* value Promise.all resolves with: the values of the promises in the order
\* of the input array
PromiseAllValues(reads, values) == [k \in 1..Len(reads) |-> values[k]]

\* reason Promise.all rejects with: that of the promise that rejected first
PromiseAllReason(reads) ==
  CHOOSE k \in 1..Len(reads) :
    /\ reads[k].state = "rejected"
    /\ \A l \in 1..Len(reads) :
         reads[l].state = "rejected" => reads[k].at <= reads[l].at

\* ------------------------------------------------------------------ state
VARIABLES
  apiKey,            \* process.env.API_KEY is defined
  aistudio,          \* window.aistudio is defined
  uploadedImages,    \* App state: File[]
  loading,           \* App state
  error,             \* App state: string | null
  generatedExam,     \* App state: GeneratedExam | null
  showApiKeyPrompt,  \* App state
  examHtmlRef,       \* App ref: examHtmlRef.current
  renderedLoading,   \* value of `loading` in the last committed render
  inv                \* the calls of analyzeImagesAndGenerateQuestions

vars == << apiKey, aistudio, uploadedImages, loading, error, generatedExam,
           showApiKeyPrompt, examHtmlRef, renderedLoading, inv >>

Invocations == 1..MaxInvocations

NoOutcome == [kind |-> "pending", value |-> Nullish]

\* locals of one call of analyzeImagesAndGenerateQuestions, the promises it
\* awaits, and the requests it has issued
IdleInvocation ==
  [pc              |-> "Idle",
   call            |-> 0,
   images          |-> <<>>,
   reads           |-> <<>>,
   values          |-> <<>>,
   readError       |-> 0,
   nReads          |-> 0,
   imageParts      |-> <<>>,
   analysisReq     |-> <<>>,
   analysis        |-> "none",
   analysisResult  |-> Nullish,
   analysisSummary |-> Nullish,
   nAnalysis       |-> 0,
   generationReq   |-> <<>>,
   generation      |-> "none",
   generationResult|-> Nullish,
   nGeneration     |-> 0,
   selectKey       |-> "none",
   nSelectKey      |-> 0,
   outcome         |-> NoOutcome]

NoExam == [set |-> FALSE, htmlContent |-> Nullish]

Init ==
  /\ apiKey \in BOOLEAN
  /\ aistudio \in BOOLEAN
  /\ uploadedImages = <<>>
  /\ loading = FALSE
  /\ error = Nullish
  /\ generatedExam = NoExam
  /\ showApiKeyPrompt = FALSE
  /\ examHtmlRef = Str(<<>>)
  /\ renderedLoading = FALSE
  /\ inv = [i \in Invocations |-> IdleInvocation]

\* ------------------------------------------- analyzeImagesAndGenerateQuestions
\* the image data the call holds is released when the call settles, and so
\* are the per-file promises when none of them is pending or rejected
Release(r) ==
  [r EXCEPT !.images = <<>>, !.values = <<>>, !.imageParts = <<>>,
            !.analysisReq = <<>>,
            !.reads = IF \A k \in 1..Len(r.reads) : r.reads[k].state = "fulfilled"
                      THEN <<>> ELSE @]

\* return <value>
Return(r, v) ==
  [Release(r) EXCEPT !.pc = "Done",
                     !.outcome = [kind |-> "resolved", value |-> v]]

\* throw <error with message m>
Throw(r, m) ==
  [Release(r) EXCEPT !.pc = "Failed",
                     !.outcome = [kind |-> "rejected", value |-> m]]

\* getGeminiClient(): TRUE iff it returns a client
GetGeminiClient(key) == key

\* partsForAnalysis = [{ text: analysisPrompt }, ...imageParts]
PartsForAnalysis(imageParts) == << [text |-> AnalysisPrompt] >> \o imageParts

\* variant: the fallback text is not substituted
AnalysisSummaryNoFallback(text) == text

\* analysisResponse.text || "No specific insights extracted from images."
AnalysisSummary(text) == IF Truthy(text) THEN text ELSE Str(FallbackSummary)

\* generationPrompt: the template with ${analysisSummary} interpolated
GenerationPrompt(summary) ==
  GenerationPromptHead
    \o (IF summary.defined THEN summary.str ELSE <<"undefined">>)
    \o GenerationPromptTail

\* ai.models.generateContent({ model: 'gemini-2.5-pro', ... })
IssueGeneration(r) ==
  [r EXCEPT !.pc = "Composing",
            !.generationReq = GenerationPrompt(r.analysisSummary),
            !.generation = "pending",
            !.nGeneration = @ + 1]

\* variant: the first request is not awaited; the composition request is
\* issued right behind it
IssueAnalysisNoAwait(r) ==
  IssueGeneration([r EXCEPT !.analysisReq = PartsForAnalysis(r.imageParts),
                            !.analysis = "pending",
                            !.nAnalysis = @ + 1])

\* ai.models.generateContent({ model: 'gemini-2.5-flash-image', ... })
IssueAnalysis(r) ==
  [r EXCEPT !.pc = "Analyzing",
            !.analysisReq = PartsForAnalysis(r.imageParts),
            !.analysis = "pending",
            !.nAnalysis = @ + 1]

\* the code after `await Promise.all(...)`, run when a read settles
AfterRead(r) ==
  IF r.pc # "Encoding" THEN r
  ELSE CASE PromiseAllState(r.reads) = "fulfilled" ->
              IssueAnalysis([r EXCEPT
                               !.imageParts = PromiseAllValues(r.reads, r.values)])
         [] PromiseAllState(r.reads) = "rejected" ->
              \* reject(error): the ProgressEvent of that reader, which has
              \* no .message
              Throw([r EXCEPT !.readError = PromiseAllReason(r.reads)], Nullish)
         [] OTHER -> r

\* the call up to its first await
StartInvocation(images, key, n) ==
  IF ~GetGeminiClient(key)
  THEN Throw([IdleInvocation EXCEPT !.call = n, !.images = images],
             Str(ApiKeyNotDefinedMsg))
  ELSE AfterRead([IdleInvocation EXCEPT
                    !.pc = "Encoding",
                    !.call = n,
                    !.images = images,
                    !.reads = [k \in 1..Len(images) |-> PendingRead],
                    !.values = [k \in 1..Len(images) |-> NoPart],
                    !.nReads = Len(images)])

\* variant: the underlying message is passed on
AnalysisFailureRaw(err) == err

\* catch of the analysis request
AnalysisFailure(err) == Str(FailedToAnalyzeMsg)

\* variant: composition is skipped when the analysis extracted nothing
OnAnalysisResolvedSkip(r, text) ==
  IF Truthy(text)
  THEN IssueGeneration([r EXCEPT !.analysis = "resolved",
                                 !.analysisResult = text,
                                 !.analysisSummary = AnalysisSummary(text)])
  ELSE Return([r EXCEPT !.analysis = "resolved", !.analysisResult = text],
              Str(<<>>))

\* analysis request resolved with a response whose .text is `text`
OnAnalysisResolved(r, text) ==
  IssueGeneration([r EXCEPT !.analysis = "resolved",
                            !.analysisResult = text,
                            !.analysisSummary = AnalysisSummary(text)])

\* variant: a failed analysis request is sent once more
OnAnalysisRejectedRetry(r, err) ==
  IF r.nAnalysis < 2
  THEN IssueAnalysis(r)
  ELSE Throw([r EXCEPT !.analysis = "rejected", !.analysisResult = err],
             AnalysisFailure(err))

\* the analysis request rejected with an error whose .message is `err`
OnAnalysisRejected(r, err) ==
  Throw([r EXCEPT !.analysis = "rejected", !.analysisResult = err],
        AnalysisFailure(err))

\* error.message && error.message.includes("Requested entity was not found.")
IsCredentialError(err) == Truthy(err) /\ Includes(err.str, NotFoundNeedle)

\* return generationResponse.text
GenerationResult(text) == text

OnGenerationResolved(r, text) ==
  Return([r EXCEPT !.generation = "resolved", !.generationResult = text],
         GenerationResult(text))

\* catch of the composition request
OnGenerationRejected(r, err, studio) ==
  LET r1 == [r EXCEPT !.generation = "rejected", !.generationResult = err]
  IN  IF IsCredentialError(err)
      THEN IF studio
           THEN [r1 EXCEPT !.selectKey = "pending", !.nSelectKey = @ + 1]
           ELSE Throw(r1, Str(AistudioTypeErrorMsg))
      ELSE Throw(r1, Str(IF Truthy(err) THEN err.str ELSE FailedToGenerateMsg))

\* await window.aistudio.openSelectKey() returned
OnSelectKeyResolved(r) ==
  Throw([r EXCEPT !.selectKey = "resolved"], Str(ApiKeyInvalidMsg))

\* await window.aistudio.openSelectKey() threw
OnSelectKeyRejected(r, err) ==
  Throw([r EXCEPT !.selectKey = "rejected"], err)


\* -------------------------------------------------------------------- App
\* the App state that generateExam reads and writes
UI ==
  [loading          |-> loading,
   error            |-> error,
   generatedExam    |-> generatedExam,
   showApiKeyPrompt |-> showApiKeyPrompt,
   examHtmlRef      |-> examHtmlRef]

ApplyUI(u) ==
  /\ loading' = u.loading
  /\ error' = u.error
  /\ generatedExam' = u.generatedExam
  /\ showApiKeyPrompt' = u.showApiKeyPrompt
  /\ examHtmlRef' = u.examHtmlRef

\* variant: the button is not disabled while loading
ButtonDisabledNoLoading(isLoading, images) == Len(images) = 0

\* disabled={loading || uploadedImages.length === 0}
ButtonDisabled(isLoading, images) == isLoading \/ Len(images) = 0

\* generateExam before the call of analyzeImagesAndGenerateQuestions
GenerateExamBegin(u) ==
  [u EXCEPT !.error = Nullish, !.loading = TRUE, !.generatedExam = NoExam]

\* generateExam after the await: rest of try, catch, finally
GenerateExamResume(u, outcome) ==
  IF outcome.kind = "resolved"
  THEN [u EXCEPT !.examHtmlRef = outcome.value,
                 !.generatedExam = [set |-> TRUE, htmlContent |-> outcome.value],
                 !.loading = FALSE]
  ELSE IF ~outcome.value.defined
       \* err.message.includes(...) on an undefined message throws inside
       \* the catch block; only the finally block runs
       THEN [u EXCEPT !.loading = FALSE]
       ELSE [u EXCEPT
               !.showApiKeyPrompt =
                  @ \/ Includes(outcome.value.str, ApiKeyInvalidNeedle),
               !.error = Str(IF Truthy(outcome.value) THEN outcome.value.str
                             ELSE UnexpectedMsg),
               !.loading = FALSE]

\* a step of call i that leaves it as r2; when the call settles in this
\* step, generateExam resumes in the same task
Step(i, r2) ==
  /\ inv' = [inv EXCEPT ![i] = r2]
  /\ ApplyUI(IF inv[i].outcome.kind = "pending" /\ r2.outcome.kind # "pending"
             THEN GenerateExamResume(UI, r2.outcome)
             ELSE UI)
  /\ UNCHANGED << apiKey, aistudio, uploadedImages, renderedLoading >>

\* ---------------------------------------------------------------- actions
\* handleImageUpload, and handleDrop, which sets the same state from the
\* dropped files; the event is rendered before the next event
HandleImageUpload(files) ==
  /\ uploadedImages' = files
  /\ renderedLoading' = loading
  /\ UNCHANGED << apiKey, aistudio, loading, error, generatedExam,
                  showApiKeyPrompt, examHtmlRef, inv >>

\* clearImages; its button is rendered only when images are selected
ClearImages ==
  /\ Len(uploadedImages) > 0
  /\ uploadedImages' = <<>>
  /\ renderedLoading' = loading
  /\ UNCHANGED << apiKey, aistudio, loading, error, generatedExam,
                  showApiKeyPrompt, examHtmlRef, inv >>

\* entry of `inv` that a new call can take: one that holds no call, or a
\* settled call.  The FileReaders a settled call has left reading can only
\* settle promises that nothing awaits; they are dropped with the entry.
Free(r) == r.pc \in {"Idle", "Done", "Failed"}

\* r.call tells apart the successive calls that occupy one entry of `inv`
NextCall(r) == IF r.pc = "Idle" THEN r.call ELSE 1 - r.call

\* click on "Generate Exam Paper": generateExam up to its first await,
\* then the render of the click event
ClickGenerate ==
  /\ ~ButtonDisabled(renderedLoading, uploadedImages)
  /\ \E i \in Invocations : Free(inv[i])
  /\ LET u0 == GenerateExamBegin(UI)
         i  == CHOOSE j \in Invocations :
                 Free(inv[j]) /\ \A l \in 1..(j - 1) : ~Free(inv[l])
     IN  IF Len(uploadedImages) = 0
         THEN /\ ApplyUI([u0 EXCEPT !.error = Str(UploadAtLeastOneMsg),
                                    !.loading = FALSE])
              /\ renderedLoading' = FALSE
              /\ UNCHANGED inv
         ELSE LET r  == StartInvocation(uploadedImages, apiKey,
                                        NextCall(inv[i]))
                  u1 == IF r.outcome.kind # "pending"
                        THEN GenerateExamResume(u0, r.outcome)
                        ELSE u0
              IN  /\ inv' = [inv EXCEPT ![i] = r]
                  /\ ApplyUI(u1)
                  /\ renderedLoading' = u1.loading
  /\ UNCHANGED << apiKey, aistudio, uploadedImages >>

\* React commits the state set outside of a user event
Render ==
  /\ renderedLoading # loading
  /\ renderedLoading' = loading
  /\ UNCHANGED << apiKey, aistudio, uploadedImages, loading, error,
                  generatedExam, showApiKeyPrompt, examHtmlRef, inv >>

\* reader.onload of file k of call i
OnLoad(r, k) ==
  AfterRead([r EXCEPT
               !.reads[k] = [state |-> "fulfilled", at |-> Settled(r.reads)],
               !.values = IF r.pc = "Encoding"
                          THEN [@ EXCEPT ![k] = EncodeFile(r.images[k])]
                          ELSE @])

ReadLoaded(i, k) ==
  /\ k \in 1..Len(inv[i].reads)
  /\ inv[i].reads[k].state = "pending"
  /\ Step(i, OnLoad(inv[i], k))

\* reader.onerror of file k of call i
OnError(r, k) ==
  AfterRead([r EXCEPT
               !.reads[k] = [state |-> "rejected", at |-> Settled(r.reads)]])

ReadFailed(i, k) ==
  /\ k \in 1..Len(inv[i].reads)
  /\ inv[i].reads[k].state = "pending"
  /\ Step(i, OnError(inv[i], k))

AnalysisResolved(i, text) ==
  /\ inv[i].analysis = "pending"
  /\ Step(i, OnAnalysisResolved(inv[i], text))

AnalysisRejected(i, err) ==
  /\ inv[i].analysis = "pending"
  /\ Step(i, OnAnalysisRejected(inv[i], err))

GenerationResolved(i, text) ==
  /\ inv[i].generation = "pending"
  /\ Step(i, OnGenerationResolved(inv[i], text))

GenerationRejected(i, err) ==
  /\ inv[i].generation = "pending"
  /\ Step(i, OnGenerationRejected(inv[i], err, aistudio))

SelectKeyResolved(i) ==
  /\ inv[i].selectKey = "pending"
  /\ Step(i, OnSelectKeyResolved(inv[i]))

SelectKeyRejected(i, err) ==
  /\ inv[i].selectKey = "pending"
  /\ Step(i, OnSelectKeyRejected(inv[i], err))

Next ==
  \/ \E files \in FileLists : HandleImageUpload(files)
  \/ ClearImages
  \/ ClickGenerate
  \/ Render
  \/ \E i \in Invocations, k \in 1..MaxImages : ReadLoaded(i, k)
  \/ \E i \in Invocations, k \in 1..MaxImages : ReadFailed(i, k)
  \/ \E i \in Invocations, text \in AnalysisTexts : AnalysisResolved(i, text)
  \/ \E i \in Invocations, err \in ServiceErrors : AnalysisRejected(i, err)
  \/ \E i \in Invocations, text \in GenerationTexts : GenerationResolved(i, text)
  \/ \E i \in Invocations, err \in ServiceErrors : GenerationRejected(i, err)
  \/ \E i \in Invocations : SelectKeyResolved(i)
  \/ \E i \in Invocations, err \in SelectKeyErrors : SelectKeyRejected(i, err)

Spec == Init /\ [][Next]_vars


\* ------------------------------------------------------------- properties
Running == {"Encoding", "Analyzing", "Composing"}

Terminal == {"Done", "Failed"}

\* the encoded part that belongs to a file
ExpectedPart(file) == [mimeType |-> file.type, data |-> Str(file.data)]

\* C1: in every call, a composition request exists only once the analysis
\* request of that call has resolved; while the analysis request is pending,
\* rejected or not issued, no composition request has been issued.
C1_CompositionAfterAnalysis ==
  \A i \in Invocations :
    (inv[i].generation # "none" \/ inv[i].nGeneration > 0)
      => inv[i].analysis = "resolved"

\* a composition request is in flight, issued after the analysis resolved
C1_Witness ==
  \E i \in Invocations :
    /\ inv[i].generation = "pending"
    /\ inv[i].analysis = "resolved"
    /\ inv[i].nGeneration = 1

\* C2: once the analysis request has resolved, exactly one composition
\* request has been issued and its prompt embeds the summary of the call,
\* which is a non-empty string: the response text when it is non-empty, the
\* literal fallback when the text is empty or missing.  No summary exists
\* before the analysis has resolved.
C2_SummaryOrFallback ==
  \A i \in Invocations :
    LET r == inv[i]
    IN  /\ r.analysis = "resolved" =>
             /\ r.nGeneration = 1
             /\ r.generation # "none"
             /\ Truthy(r.analysisSummary)
             /\ r.generationReq =
                  GenerationPromptHead \o r.analysisSummary.str
                                       \o GenerationPromptTail
             /\ r.analysisSummary =
                  (IF Truthy(r.analysisResult) THEN r.analysisResult
                   ELSE Str(FallbackSummary))
        /\ r.analysis # "resolved" =>
             r.analysisSummary = Nullish /\ r.generationReq = <<>>

\* the analysis answered without a text and the composition request is out
C2_Witness ==
  \E i \in Invocations :
    /\ inv[i].analysis = "resolved"
    /\ ~Truthy(inv[i].analysisResult)
    /\ inv[i].generation = "pending"

\* C3: when the analysis request has rejected, the call has failed with the
\* message "Failed to analyze images. Please try again.", whatever the
\* message of the underlying error.
C3_AnalysisFailureMessage ==
  \A i \in Invocations :
    inv[i].analysis = "rejected" =>
      /\ inv[i].pc = "Failed"
      /\ inv[i].outcome = [kind |-> "rejected", value |-> Str(FailedToAnalyzeMsg)]

\* the analysis rejected with a message of its own
C3_Witness ==
  \E i \in Invocations :
    /\ inv[i].analysis = "rejected"
    /\ inv[i].analysisResult = Str(<<"Quota exceeded">>)
    /\ inv[i].pc = "Failed"

\* C4: a call that failed after its composition request rejected with a
\* message containing "Requested entity was not found." has invoked
\* openSelectKey exactly once and surfaces the message "API key might be
\* invalid or not selected. Please select a valid key.", whatever the
\* outcome of openSelectKey.
C4_CredentialErrorSurfaced ==
  \A i \in Invocations :
    ( /\ inv[i].pc = "Failed"
      /\ inv[i].generation = "rejected"
      /\ IsCredentialError(inv[i].generationResult) )
    => /\ inv[i].nSelectKey = 1
       /\ inv[i].outcome = [kind |-> "rejected", value |-> Str(ApiKeyInvalidMsg)]

\* C5: once the reads of a call have all succeeded, the call holds one
\* encoded part per file, the k-th part carrying the MIME type and the
\* payload of the k-th file, in whatever order the reads completed; the
\* analysis request is the instruction text followed by these parts in the
\* same order.
C5_PartsInInputOrder ==
  \A i \in Invocations :
    LET r == inv[i]
    IN  r.pc \in {"Analyzing", "Composing"} =>
          /\ Len(r.images) = r.nReads
          /\ Len(r.imageParts) = Len(r.images)
          /\ \A k \in 1..Len(r.images) :
               r.imageParts[k] = ExpectedPart(r.images[k])
          /\ Len(r.analysisReq) = Len(r.images) + 1
          /\ r.analysisReq[1] = [text |-> AnalysisPrompt]
          /\ \A k \in 1..Len(r.images) :
               r.analysisReq[k + 1] = ExpectedPart(r.images[k])

\* the analysis request is out and the second file was read before the first
C5_Witness ==
  \E i \in Invocations :
    /\ inv[i].pc = "Analyzing"
    /\ Len(inv[i].images) >= 2
    /\ inv[i].reads[2].at < inv[i].reads[1].at

\* C6: as soon as one read of a call has failed, the call has failed with
\* the error of the read that failed first, it holds no list of encoded
\* parts and it has issued no analysis and no composition request, whatever
\* the state of the other reads; a list of encoded parts exists only when
\* every read has succeeded.
C6_ReadFailureFailsBatch ==
  \A i \in Invocations :
    LET r == inv[i]
        rejected == { k \in 1..Len(r.reads) : r.reads[k].state = "rejected" }
    IN  /\ rejected # {} =>
             /\ r.pc = "Failed"
             /\ r.outcome = [kind |-> "rejected", value |-> Nullish]
             /\ r.readError \in rejected
             /\ \A l \in rejected : r.reads[r.readError].at <= r.reads[l].at
             /\ r.imageParts = <<>>
             /\ r.analysisReq = <<>>
             /\ r.nAnalysis = 0 /\ r.analysis = "none"
             /\ r.nGeneration = 0 /\ r.generation = "none"
        /\ r.imageParts # <<>> =>
             /\ Len(r.imageParts) = r.nReads
             /\ \A k \in 1..Len(r.reads) : r.reads[k].state = "fulfilled"

\* a read failed after another read of the same call had succeeded
C6_Witness ==
  \E i \in Invocations :
    \E k, l \in 1..Len(inv[i].reads) :
      /\ inv[i].reads[k].state = "rejected"
      /\ inv[i].reads[l].state = "fulfilled"
      /\ inv[i].reads[l].at < inv[i].reads[k].at
      /\ inv[i].pc = "Failed"

\* the phase changes of one call that the state machine of the
\* specification allows
PhaseSteps ==
  { <<"Idle", "Encoding">>, <<"Encoding", "Analyzing">>,
    <<"Analyzing", "Composing">>, <<"Composing", "Done">>,
    <<"Encoding", "Failed">>, <<"Analyzing", "Failed">>,
    <<"Composing", "Failed">> }

\* a settled call starts no read and issues no request
NothingStarted(a, b) ==
  /\ b.nReads = a.nReads
  /\ b.nAnalysis = a.nAnalysis
  /\ b.nGeneration = a.nGeneration
  /\ b.nSelectKey = a.nSelectKey

\* C7 as stated: a call moves Idle, Encoding, Analyzing, Composing, Done in
\* that order, Failed is entered only from Encoding, Analyzing or Composing,
\* and a call that is Done or Failed starts no read and issues no request.
C7_PhasesNoFailFromIdle ==
  [][ \A i \in Invocations :
        LET a == inv[i]
            b == inv'[i]
        IN  IF a.call = b.call
            THEN /\ a.pc = b.pc \/ <<a.pc, b.pc>> \in PhaseSteps
                 /\ a.pc \in Terminal => NothingStarted(a, b)
            \* the entry is taken by the next call, which leaves Idle
            ELSE a.pc \in Terminal /\ b.pc = "Encoding" ]_vars

\* C7 (amended): as C7, except that Failed is also entered directly from
\* Idle, exactly when the credential is missing, and then without any read
\* or request started.
C7_Phases ==
  [][ \A i \in Invocations :
        LET a == inv[i]
            b == inv'[i]
            start == a.call # b.call \/ a.pc = "Idle"
        IN  /\ IF a.call = b.call
               THEN /\ \/ a.pc = b.pc
                       \/ <<a.pc, b.pc>> \in PhaseSteps
                       \/ <<a.pc, b.pc>> = <<"Idle", "Failed">>
                    /\ a.pc \in Terminal => NothingStarted(a, b)
               ELSE a.pc \in Terminal /\ b.pc \in {"Encoding", "Failed"}
            /\ (start /\ b.pc = "Failed") =>
                  /\ ~apiKey
                  /\ b.nReads = 0 /\ b.nAnalysis = 0
                  /\ b.nGeneration = 0 /\ b.nSelectKey = 0
            /\ (start /\ b.pc = "Encoding") => apiKey ]_vars

\* a call has failed without having started a read: the credential is missing
C7_Witness ==
  \E i \in Invocations :
    /\ inv[i].pc = "Failed"
    /\ inv[i].nReads = 0
    /\ inv[i].outcome.value = Str(ApiKeyNotDefinedMsg)

\* C8: a call that has completed delivered either the raw text of the
\* composition response, which is a string, or an error that carries a
\* non-empty message; it never resolved with a missing value.
C8_StringOrError ==
  \A i \in Invocations :
    LET r == inv[i]
    IN  /\ r.pc = "Done" =>
             /\ r.outcome.kind = "resolved"
             /\ r.outcome.value = r.generationResult
             /\ r.outcome.value.defined
        /\ r.pc = "Failed" =>
             /\ r.outcome.kind = "rejected"
             /\ Truthy(r.outcome.value)
        /\ r.pc \notin Terminal => r.outcome.kind = "pending"

\* C9: a call issues at most one analysis request and at most one
\* composition request; a failed call has no request pending, a call whose
\* reads failed has issued no request and a call whose analysis failed has
\* issued no composition request.
C9_NoRetry ==
  \A i \in Invocations :
    LET r == inv[i]
    IN  /\ r.nAnalysis <= 1
        /\ r.nGeneration <= 1
        /\ r.nSelectKey <= 1
        /\ r.pc = "Failed" =>
             /\ r.analysis # "pending"
             /\ r.generation # "pending"
             /\ r.selectKey # "pending"
        /\ r.readError # 0 => r.nAnalysis = 0 /\ r.nGeneration = 0
        /\ r.analysis = "rejected" => r.nAnalysis = 1 /\ r.nGeneration = 0
        /\ r.generation = "rejected" => r.nAnalysis = 1 /\ r.nGeneration = 1

\* a call failed at the composition stage after one request per stage
C9_Witness ==
  \E i \in Invocations :
    /\ inv[i].pc = "Failed"
    /\ inv[i].generation = "rejected"
    /\ inv[i].nAnalysis = 1
    /\ inv[i].nGeneration = 1

\* C10: at most one call of analyzeImagesAndGenerateQuestions is in flight.
C10_SingleFlight ==
  Cardinality({ i \in Invocations : inv[i].pc \in Running }) <= 1

\* a second run is in flight after the first one settled, and the button is
\* disabled although images are selected
C10_Witness ==
  \E i \in Invocations :
    /\ inv[i].pc \in Running
    /\ inv[i].call = 1
    /\ Len(uploadedImages) > 0
    /\ ButtonDisabled(renderedLoading, uploadedImages)

\* C11: when a call has failed, at whatever stage, and no call is in
\* flight, the App shows a non-null, non-empty error text, shows no
\* generated exam, and loading is cleared.
C11_FailureDisplayed ==
  ( /\ \E i \in Invocations : inv[i].pc = "Failed"
    /\ \A i \in Invocations : inv[i].pc \notin Running )
  => /\ Truthy(error)
     /\ generatedExam = NoExam
     /\ loading = FALSE

====
